---- MODULE Spec2Model ----
(***************************************************************************)
(* Model of the ACC/BIM 360 issues fetcher (src/script.py, the desktop     *)
(* front-end, and src/streamlit_app.py, the web front-end).                *)
(*                                                                         *)
(* Three specifications share one set of variables:                        *)
(*   SpecAuth  Manual3LeggedAuth.authenticate and the callback handler     *)
(*             OAuth3LeggedHandler.do_GET, for repeated attempts;          *)
(*   SpecApi   the IssuesAPI list calls, applied to bounded inputs;        *)
(*   SpecApp   the desktop application IssuesFetcherApp: the UI thread,    *)
(*             its dispatch queue and the worker threads.                  *)
(* A specification leaves the variables of the other parts at their        *)
(* initial values.                                                         *)
(***************************************************************************)
EXTENDS Integers, Sequences, FiniteSets, TLC

None == "None"

\* Values that stand for Python's None where the other values are not strings.
NoRequest == [path |-> <<>>, query |-> <<>>]
NoError == <<>>
NoUrl == [response_type |-> "", client_id |-> "", redirect_uri |-> "", scope |-> "", state |-> ""]
NoToken == [kind |-> "None"]

\* Python's None where the other values are character strings.
NoneStr == <<"None">>
Raised == [kind |-> "raised"]

(***************************************************************************)
(* Strings that the code inspects character by character are sequences of  *)
(* one-character strings.                                                  *)
(***************************************************************************)
CALLBACK_PREFIX == <<"/", "c", "a", "l", "l", "b", "a", "c", "k">>

startswith(s, prefix) ==
    /\ Len(s) >= Len(prefix)
    /\ \A i \in 1..Len(prefix) : s[i] = prefix[i]

\* The clock is read in whole seconds.  One iteration of the wait loop lasts
\* at most server.timeout (handle_request) plus the 0.1 s sleep; it is
\* counted as server_timeout seconds.
timeout == 300
server_timeout == 1

(***************************************************************************)
(* Bounds of the model.                                                    *)
(***************************************************************************)
MaxAttempts == 2
MaxLimit == 202
MaxWorkers == 2

\* The API maximum of the issues endpoint (get_issues).
API_MAX_LIMIT == 200

(***************************************************************************)
(* Requests that reach the local callback server.  A request target is a   *)
(* path and a query string; the query string is a sequence of key/value    *)
(* pairs in the order they were written.                                   *)
(***************************************************************************)
Paths ==
    { CALLBACK_PREFIX,
      CALLBACK_PREFIX \o <<"X">>,
      <<"/", "c", "a", "l", "l">>,
      <<"/">> }

Queries ==
    { <<>>,
      << <<"code", "abc">>, <<"state", "gui_auth_state">> >>,
      << <<"code", "abc">>, <<"state", "xyz">> >>,
      << <<"code", "abc">> >>,
      << <<"code", "">> >>,
      << <<"error", "access_denied">> >>,
      << <<"error", "access_denied">>, <<"error_description", "denied">> >>,
      << <<"state", "gui_auth_state">> >> }

Requests == [path : Paths, query : Queries]

\* urllib.parse.parse_qs: pairs with a blank value are dropped
\* (keep_blank_values=False); the values of a key keep their order.
RECURSIVE parse_qs_values(_, _)
parse_qs_values(query, key) ==
    IF query = <<>> THEN <<>>
    ELSE LET pair == Head(query)
             rest == parse_qs_values(Tail(query), key)
         IN  IF pair[1] = key /\ pair[2] # "" THEN <<pair[2]>> \o rest ELSE rest

\* "key in query_params"
in_query_params(query, key) == parse_qs_values(query, key) # <<>>

\* query_params.get(key, [default])[0]
query_get_first(query, key, default) ==
    IF in_query_params(query, key) THEN parse_qs_values(query, key)[1] ELSE default

VARIABLES
    pc,          \* position of Manual3LeggedAuth.authenticate
    server,      \* the HTTPServer: open, auth_code, auth_error
    elapsed,     \* time.time() - start_time, in seconds
    request,     \* the request handled last in this attempt, or None
    status,      \* the status send_response gave for it; 0 when none was sent
    auth_url,    \* the authorization URL opened in the browser
    issued,      \* the authorization URLs of all attempts, in order
    posts,       \* the token-exchange POSTs sent, in order
    token_response,  \* response.status_code of this attempt's POST; 0 when
                     \* no response was received
    token_data   \* what authenticate returned: a token, NoToken, or Raised

authVars == <<pc, server, elapsed, request, status, auth_url, issued, posts,
              token_response, token_data>>

VARIABLES
    api_pc,        \* "idle", "called" (arguments chosen) or "returned"
    api_call,      \* the IssuesAPI call: method and arguments
    api_response,  \* what the network holds ready for that call
    api_sent,      \* the HTTP requests the call sent
    api_ret        \* what the call returned, or that it raised

apiVars == <<api_pc, api_call, api_response, api_sent, api_ret>>

VARIABLES
    app,          \* the fields and widgets of IssuesFetcherApp
    threads,      \* the worker threads started so far, with their positions
    ui_queue,     \* callbacks handed to root.after(0, ...), oldest first, grouped
                  \* by the worker step that handed them over
    credentials   \* os.getenv("APS_CLIENT_ID") and os.getenv("APS_CLIENT_SECRET")

appVars == <<app, threads, ui_queue, credentials>>

VARIABLES
    session       \* st.session_state of the web application, with the values
                  \* of its keyed widgets

webVars == <<session>>

vars == <<authVars, apiVars, appVars, webVars>>

\* do_GET without the path test: every request is treated as a callback.
do_GET_NoPathTest(srv, req) ==
    IF in_query_params(req.query, "code")
    THEN [server |-> [srv EXCEPT !.auth_code = query_get_first(req.query, "code", None)],
          status |-> 200]
    ELSE IF in_query_params(req.query, "error")
    THEN [server |-> [srv EXCEPT !.auth_error =
                         <<query_get_first(req.query, "error", None),
                           query_get_first(req.query, "error_description", "Unknown error")>>],
          status |-> 400]
    ELSE [server |-> srv, status |-> 404]

(***************************************************************************)
(* OAuth3LeggedHandler.do_GET: the new server fields and the status sent.  *)
(* A callback request carrying neither code nor error falls through both   *)
(* branches: no response is written at all (status 0).                     *)
(***************************************************************************)
do_GET(srv, req) ==
    IF startswith(req.path, CALLBACK_PREFIX)
    THEN IF in_query_params(req.query, "code")
         THEN [server |-> [srv EXCEPT !.auth_code = query_get_first(req.query, "code", None)],
               status |-> 200]
         ELSE IF in_query_params(req.query, "error")
         THEN [server |-> [srv EXCEPT !.auth_error =
                              <<query_get_first(req.query, "error", None),
                                query_get_first(req.query, "error_description", "Unknown error")>>],
               status |-> 400]
         ELSE [server |-> srv, status |-> 0]
    ELSE [server |-> srv, status |-> 404]

\* Manual3LeggedAuth.get_authorization_url: the query parameters of the URL.
get_authorization_url ==
    [response_type |-> "code",
     client_id     |-> "client_id",
     redirect_uri  |-> "http://localhost:8080/callback",
     scope         |-> "data:read data:write account:read code:all",
     state         |-> "gui_auth_state"]

\* Manual3LeggedAuth.start_callback_server
start_callback_server == [open |-> TRUE, auth_code |-> None, auth_error |-> NoError]

\* server_close that leaves the socket listening.
server_close_Noop(srv) == srv
\* server.server_close()
server_close(srv) == [srv EXCEPT !.open = FALSE]

\* time.time() - start_time after one more iteration of the wait loop:
\* handle_request returns after at most server.timeout.
clock_after_iteration(t) == t + server_timeout

\* Manual3LeggedAuth.exchange_code_for_token: the value returned for a response.
TokenStatuses == {200, 400, 401, 500}

exchange_code_for_token(n, response_status) ==
    IF response_status = 200
    THEN [kind |-> "token", access_token |-> <<"3leg", n>>]
    ELSE NoToken

(***************************************************************************)
(* IssuesAPI: get_issues and get_issue_types.                              *)
(***************************************************************************)
\* JSON bodies of a list endpoint.  A body is a mapping with some of the keys
\* "results" and "data", a bare sequence (items), or a bare string.
\* The JSON value of a field of an issue: the key is absent, its value is
\* null, a string, or an object of which one key ("title" or "name") is read.
\* That key is again absent, null or a string.
JAbsent == [kind |-> "absent", sub |-> "absent", s |-> <<>>]
JNull == [kind |-> "null", sub |-> "absent", s |-> <<>>]
JStr(s) == [kind |-> "str", sub |-> "absent", s |-> s]
JObj(sub, s) == [kind |-> "obj", sub |-> sub, s |-> s]

SimpleFields ==
    {"title", "description", "status", "priority", "createdAt", "updatedAt",
     "locationDescription", "dueDate"}
ObjectFields == {"issueType", "assignedTo", "createdBy"}

NoFields == [k \in SimpleFields \cup ObjectFields |-> JAbsent]

\* An issue record of a response: "id" (<<>> when absent, NoneStr when
\* null), whether it has an "attributes" key, whether that is an object or
\* null, and the fields (top-level or inside attributes).
IssueItem(id, wrapped, attributes, f) ==
    [type |-> "dict", id |-> id, wrapped |-> wrapped, attributes |-> attributes, f |-> f]

DictItem(id) == IssueItem(id, FALSE, "object", NoFields)
IntItem == [type |-> "int", id |-> <<>>]

Item1 == DictItem(<<"i", "1">>)
Item2 == DictItem(<<"i", "2">>)
Item3 == DictItem(<<"i", "3">>)

ItemLists ==
    { <<>>,
      <<Item1>>,
      <<Item1, Item2>>,
      <<IntItem, Item1>>,
      <<Item1, Item2, Item3, IntItem>> }

NoBody == [type |-> "none", keys |-> {}, results |-> <<>>, data |-> <<>>, items |-> <<>>]

Bodies ==
    { [type |-> "dict", keys |-> {"results"}, results |-> r, data |-> <<>>, items |-> <<>>] :
          r \in ItemLists }
    \cup { [type |-> "dict", keys |-> {"data"}, results |-> <<>>, data |-> d, items |-> <<>>] :
          d \in ItemLists }
    \cup { [type |-> "dict", keys |-> {"results", "data"}, results |-> r, data |-> d,
            items |-> <<>>] :
          r \in {<<>>, <<Item1>>}, d \in ItemLists \cup {<<Item2>>} }
    \cup { [type |-> "dict", keys |-> {}, results |-> <<>>, data |-> <<>>, items |-> <<>>],
           [type |-> "list", keys |-> {}, results |-> <<>>, data |-> <<>>,
            items |-> <<Item1>>],
           [type |-> "str", keys |-> {}, results |-> <<>>, data |-> <<>>, items |-> <<>>] }

ListStatuses == {200, 401, 403, 404, 500}

\* What requests.get meets: a response with a status, or an exception
\* (connection error, timeout).
Responses ==
    { [kind |-> "exception", status_code |-> 0, body |-> NoBody] }
    \cup [kind : {"status"}, status_code : ListStatuses \ {200}, body : {NoBody}]
    \cup [kind : {"status"}, status_code : {200}, body : Bodies]

ContainerIds == {NoneStr, <<>>, <<"c", "1">>}
Limits == {-1, 0, 1} \cup ((API_MAX_LIMIT - 1)..MaxLimit)
IssueTypeArgs == {NoneStr, <<"t", "1">>}
StatusArgs == {NoneStr, <<"o", "p", "e", "n">>}

\* "not x" for a string or None.
falsy_NoneOnly(x) == x = NoneStr
falsy(x) == x = NoneStr \/ x = <<>>

\* "if limit > 200: limit = 200"
clamp_limit_Unclamped(limit) == limit
clamp_limit(limit) == IF limit > API_MAX_LIMIT THEN API_MAX_LIMIT ELSE limit

\* response_data.get(key, [])
dict_get(body, key) ==
    IF key \in body.keys
    THEN (IF key = "results" THEN body.results ELSE body.data)
    ELSE <<>>

\* "results" first, "data" when that is empty.
results_or_data(body) ==
    IF dict_get(body, "results") = <<>> THEN dict_get(body, "data") ELSE dict_get(body, "results")

first_n(seq, n) == SubSeq(seq, 1, IF Len(seq) < n THEN Len(seq) ELSE n)

\* An outcome of a block of code: a value, or an exception on its way up.
value_of(v) == [raised |-> FALSE, value |-> v]
exception == [raised |-> TRUE, value |-> <<>>]

\* "except Exception: return []"
except_return_empty_Reraise(outcome) == outcome
except_return_empty(outcome) == IF outcome.raised THEN value_of(<<>>) ELSE outcome

\* The try block of get_issues.  With a body that is not a mapping,
\* response_data.get raises; the logging loop over issues[:3] raises on an
\* item that is not a mapping.
get_issues_try(response) ==
    IF response.kind = "exception" THEN exception
    ELSE IF response.status_code = 200
    THEN IF response.body.type # "dict" THEN exception
         ELSE LET issues == results_or_data(response.body) IN
              IF \E i \in DOMAIN first_n(issues, 3) :
                     \/ issues[i].type # "dict"
                     \/ issues[i].wrapped /\ issues[i].attributes # "object"
              THEN exception
              ELSE value_of(issues)
    ELSE IF response.status_code = 404 THEN value_of(<<>>)
    ELSE IF response.status_code = 401 THEN value_of(<<>>)
    ELSE IF response.status_code = 403 THEN value_of(<<>>)
    ELSE value_of(<<>>)

\* IssuesAPI.get_issues: the requests sent and the outcome.
get_issues(token, container_id, issue_type, status_arg, limit, response) ==
    IF falsy(container_id)
    THEN [sent |-> <<>>, outcome |-> value_of(<<>>)]
    ELSE [sent |-> << [endpoint |-> "issues", container |-> container_id, token |-> token,
                       limit |-> clamp_limit(limit),
                       issueTypeId |-> IF falsy(issue_type) THEN NoneStr ELSE issue_type,
                       status |-> IF falsy(status_arg) THEN NoneStr ELSE status_arg] >>,
          outcome |-> except_return_empty(get_issues_try(response))]

\* The try block of get_issue_types; its logging loop visits every item.
get_issue_types_try(response) ==
    IF response.kind = "exception" THEN exception
    ELSE IF response.status_code = 200
    THEN IF response.body.type # "dict" THEN exception
         ELSE LET issue_types == results_or_data(response.body) IN
              IF \E i \in DOMAIN issue_types : issue_types[i].type # "dict"
              THEN exception
              ELSE value_of(issue_types)
    ELSE IF response.status_code = 404 THEN value_of(<<>>)
    ELSE IF response.status_code = 401 THEN value_of(<<>>)
    ELSE IF response.status_code = 403 THEN value_of(<<>>)
    ELSE value_of(<<>>)

\* IssuesAPI.get_issue_types: the requests sent and the outcome.
get_issue_types(token, container_id, response) ==
    IF falsy(container_id)
    THEN [sent |-> <<>>, outcome |-> value_of(<<>>)]
    ELSE [sent |-> << [endpoint |-> "issue-types", container |-> container_id, token |-> token,
                       limit |-> 0, issueTypeId |-> NoneStr, status |-> NoneStr] >>,
          outcome |-> except_return_empty(get_issue_types_try(response))]

(***************************************************************************)
(* IssuesAPI.get_project_container_id.                                     *)
(***************************************************************************)
SCOPE_MARKER == <<"b", "3", "6", "0", "p", "r", "o", "j", "e", "c", "t", ".">>
PROJECT_PREFIX == <<"b", ".">>

\* s[n:] for a character string.
drop(s, n) == IF Len(s) <= n THEN <<>> ELSE SubSeq(s, n + 1, Len(s))

\* str.replace(old, ""): every occurrence of old, found left to right, is removed.
RECURSIVE str_remove(_, _)
str_remove(s, old) ==
    IF s = <<>> THEN <<>>
    ELSE IF startswith(s, old) THEN str_remove(drop(s, Len(old)), old)
    ELSE <<Head(s)>> \o str_remove(Tail(s), old)

\* The first scope that starts with the marker, or NoneStr.
RECURSIVE first_marked_scope(_)
first_marked_scope(scopes) ==
    IF scopes = <<>> THEN NoneStr
    ELSE IF startswith(Head(scopes), SCOPE_MARKER) THEN Head(scopes)
    ELSE first_marked_scope(Tail(scopes))

\* The try block without the fallback on the project id.
get_project_container_id_try_NoFallback(project_id, response) ==
    IF response.kind = "exception" THEN exception
    ELSE IF response.status_code = 200
    THEN IF response.body.type # "dict" THEN exception
         ELSE IF first_marked_scope(response.body.scopes) # NoneStr
         THEN value_of(str_remove(first_marked_scope(response.body.scopes), SCOPE_MARKER))
         ELSE value_of(NoneStr)
    ELSE value_of(NoneStr)
\* The try block.  A detail body is a mapping that carries
\* data.attributes.scopes (a list of strings, possibly empty or missing), or
\* something else on which the chain of .get calls raises.
get_project_container_id_try(project_id, response) ==
    IF response.kind = "exception" THEN exception
    ELSE IF response.status_code = 200
    THEN IF response.body.type # "dict" THEN exception
         ELSE IF first_marked_scope(response.body.scopes) # NoneStr
         THEN value_of(str_remove(first_marked_scope(response.body.scopes), SCOPE_MARKER))
         ELSE IF startswith(project_id, PROJECT_PREFIX)
         THEN value_of(drop(project_id, 2))
         ELSE value_of(NoneStr)
    ELSE value_of(NoneStr)

\* "except Exception: return None", left out.
except_return_none_Reraise(outcome) == outcome
\* "except Exception: return None"
except_return_none(outcome) == IF outcome.raised THEN value_of(NoneStr) ELSE outcome

\* IssuesAPI.get_project_container_id: the request sent and the outcome.
get_project_container_id(token, hub_id, project_id, response) ==
    [sent |-> << [endpoint |-> "project", hub |-> hub_id, project |-> project_id,
                  token |-> token] >>,
     outcome |-> except_return_none(get_project_container_id_try(project_id, response))]

\* The project ids get_project_container_id is called with.
DetailProjectIds ==
    { <<"b", ".", "A", "B", "C", "1", "2", "3">>, <<"x", "2">>, <<"b", ".">>, <<"b">>,
      <<"a", "b", ".", "1">> }

\* The scope lists of a project: none, one marked scope, a marked scope
\* after another scope and before a second marked one, a scope that holds
\* the marker twice, a scope that holds it after its first character, and
\* a scope that is the marker alone.
ScopeLists ==
    { <<>>,
      <<SCOPE_MARKER \o <<"c", "1">> >>,
      << <<"d", "o", "c", "s">>, SCOPE_MARKER \o <<"c", "2">>, SCOPE_MARKER \o <<"c", "1">> >>,
      <<SCOPE_MARKER \o <<"x">> \o SCOPE_MARKER \o <<"y">> >>,
      << <<"x">> \o SCOPE_MARKER \o <<"c", "3">> >>,
      <<SCOPE_MARKER>> }

\* What the project-detail request meets: an exception, a status other
\* than 200, a JSON body that is a mapping with data.attributes (and its
\* scopes), or a body on which the chain of .get calls raises (an array, a
\* string, a null "data", a null "extension" in the attributes).
DetailResponses ==
    { [kind |-> "exception", status_code |-> 0, body |-> [type |-> "none", scopes |-> <<>>]] }
    \cup [kind : {"status"}, status_code : {401, 403, 404, 500},
          body : {[type |-> "none", scopes |-> <<>>]}]
    \cup [kind : {"status"}, status_code : {200},
          body : [type : {"dict"}, scopes : ScopeLists]
                 \cup [type : {"list", "str", "null_data", "null_extension"}, scopes : {<<>>}]]

(***************************************************************************)
(* The desktop application, IssuesFetcherApp.                              *)
(*                                                                         *)
(* The services it talks to hold one hub with two projects.  What a        *)
(* service answers to one request is chosen by the action that sends it    *)
(* (a "kind"); the records of the answer are those of the hub, project or  *)
(* container the request names.                                            *)
(***************************************************************************)
Hub1 == <<"h", "1">>
Proj1 == <<"b", ".", "1">>
Proj2 == <<"x", "2">>
ProjectIds == {Proj1, Proj2}

\* A hub or project record: id and attributes.name.
NamedItem(id, name) == [type |-> "dict", id |-> id, name |-> name]
\* An issue type record in the direct format: id, title, isActive.
TypeItem(id, title, active) == [type |-> "dict", id |-> id, title |-> title, isActive |-> active]

ListBody(items) == [type |-> "list", keys |-> {}, results |-> <<>>, data |-> <<>>, items |-> items]
StrBody == [type |-> "str", keys |-> {}, results |-> <<>>, data |-> <<>>, items |-> <<>>]
ResultsBody(items) ==
    [type |-> "dict", keys |-> {"results"}, results |-> items, data |-> <<>>, items |-> <<>>]

DataBody(items) ==
    [type |-> "dict", keys |-> {"data"}, results |-> <<>>, data |-> items, items |-> <<>>]

\* What get_hubs or get_projects may return: a string, a bare list (empty,
\* of records, or with an item that is not a mapping), a mapping with a
\* "data" key, or a mapping with neither "data" nor "id".
ListingBodies(items) ==
    { StrBody,
      ListBody(<<>>),
      ListBody(items),
      ListBody(<<IntItem, NamedItem(<<>>, <<"Z">>)>> \o items),
      DataBody(items),
      [type |-> "dict", keys |-> {}, results |-> <<>>, data |-> <<>>, items |-> <<>>] }

\* The states of a field of an issue, and the issues over them: all simple
\* fields in one state but for one of them, every combination of the three
\* object fields, and an id that is present, absent or null.
FieldStates == {JAbsent, JNull, JStr(<<"v">>)}
ObjectStates ==
    {JAbsent, JNull, JObj("absent", <<>>), JObj("null", <<>>), JObj("str", <<"n">>)}

IssueFields ==
    { [k \in SimpleFields \cup ObjectFields |->
          IF k \in SimpleFields THEN (IF k = one THEN s1 ELSE s0) ELSE o[k]] :
      one \in SimpleFields, s0 \in FieldStates, s1 \in FieldStates,
      o \in [ObjectFields -> ObjectStates] }

IssueIds == {<<"i", "1">>, <<>>, NoneStr}

\* The lists handed to display_issues and kept in current_issues: one issue
\* in its direct and in its attributes-wrapped shape, an issue whose
\* attributes are null, and lists that mix records with other items.
IssueLists ==
    { <<IssueItem(id, FALSE, "object", f), IssueItem(id, TRUE, "object", f)>> :
          id \in IssueIds, f \in IssueFields }
    \cup { <<IssueItem(<<"i", "1">>, TRUE, "null", NoFields)>>,
           <<Item1, IntItem, Item2>>,
           <<Item1, DictItem(<<>>), Item2>>,
           <<>> }

last_char(s) == IF s = <<>> THEN "?" ELSE s[Len(s)]

HubItems == <<NamedItem(Hub1, <<"A">>)>>
ProjectItems == <<NamedItem(Proj1, <<"P">>), NamedItem(Proj2, <<"Q">>)>>

ListingKinds == {"list", "str"}
DetailKinds == {"scoped", "404"}
ListKinds == {"ok", "404"}

\* bim360.get_hubs()
HubsResponse(kind) ==
    IF kind = "list"
    THEN ListBody(HubItems)
    ELSE StrBody

\* bim360.get_projects(hub_id)
ProjectsResponse(hub_id, kind) ==
    IF kind = "list"
    THEN IF hub_id = Hub1
         THEN ListBody(ProjectItems)
         ELSE ListBody(<<>>)
    ELSE StrBody

\* GET project/v1/hubs/{hub_id}/projects/{project_id}
DetailResponse(project_id, kind) ==
    IF kind = "404"
    THEN [kind |-> "status", status_code |-> 404, body |-> [type |-> "none", scopes |-> <<>>]]
    ELSE [kind |-> "status", status_code |-> 200,
          body |-> [type |-> "dict",
                    scopes |-> IF kind = "scoped"
                               THEN <<SCOPE_MARKER \o <<"c", last_char(project_id)>> >>
                               ELSE <<>>]]

\* GET construction/issues/v1/projects/{container_id}/issue-types
TypesResponse(container_id, kind) ==
    IF kind = "ok"
    THEN [kind |-> "status", status_code |-> 200,
          body |-> ResultsBody(<<TypeItem(<<"t", last_char(container_id)>>,
                                         <<"T", last_char(container_id)>>, TRUE),
                                 TypeItem(<<"u", last_char(container_id)>>,
                                         <<"U", last_char(container_id)>>, FALSE)>>)]
    ELSE [kind |-> "status", status_code |-> 404, body |-> NoBody]

\* GET construction/issues/v1/projects/{container_id}/issues
IssuesResponse(container_id, kind) ==
    IF kind = "ok"
    THEN [kind |-> "status", status_code |-> 200,
          body |-> ResultsBody(<<DictItem(<<"i", last_char(container_id)>>)>>)]
    ELSE [kind |-> "status", status_code |-> 404, body |-> NoBody]

\* Tokens: the kind and the worker thread that obtained it.
NoTok == <<"none", 0>>
Token2Leg(i) == <<"2leg", i>>
Token3Leg(i) == <<"3leg", i>>

\* A status bar text and the number formatted into it.
Text(t) == <<t, 0>>

\* The shape switch without its string branch: a string is iterated like a
\* list.
listing_shape_StrAsList(body) ==
    IF body.type \in {"str", "list"} THEN [ok |-> TRUE, list |-> body.items]
    ELSE IF body.type = "dict" /\ "data" \in body.keys THEN [ok |-> TRUE, list |-> body.data]
    ELSE [ok |-> FALSE, list |-> <<>>]
\* The shape switch of load_hubs and on_hub_selected: the list to process,
\* or a failure.
listing_shape(body) ==
    IF body.type = "str" THEN [ok |-> FALSE, list |-> <<>>]
    ELSE IF body.type = "list" THEN [ok |-> TRUE, list |-> body.items]
    ELSE IF body.type = "dict" /\ "data" \in body.keys THEN [ok |-> TRUE, list |-> body.data]
    ELSE [ok |-> FALSE, list |-> <<>>]

\* d[key] = value for a dict held as a function.
dict_set(d, key, value) ==
    [k \in DOMAIN d \cup {key} |-> IF k = key THEN value ELSE d[k]]

EmptyDict == [k \in {} |-> <<>>]

\* The loop over hubs_list / projects_list: items that are not mappings or
\* have no id are skipped; a missing name becomes the prefix and the id.
RECURSIVE load_named(_, _, _)
load_named(items, prefix, acc) ==
    IF items = <<>> THEN acc
    ELSE LET item == Head(items) IN
         IF item.type # "dict" \/ falsy(item.id)
         THEN load_named(Tail(items), prefix, acc)
         ELSE LET name == IF item.name = <<>> THEN prefix \o item.id ELSE item.name IN
              load_named(Tail(items), prefix,
                         [map |-> dict_set(acc.map, name, item.id),
                          names |-> Append(acc.names, name)])

\* The loop over issue_types_data (direct format): inactive types are skipped.
RECURSIVE load_types(_, _)
load_types(items, acc) ==
    IF items = <<>> THEN acc
    ELSE LET item == Head(items) IN
         IF item.type # "dict" \/ falsy(item.id) \/ ~item.isActive
         THEN load_types(Tail(items), acc)
         ELSE LET name == IF item.title = <<>> THEN <<"T", "y", "p", "e", " ">> \o item.id
                          ELSE item.title IN
              load_types(Tail(items),
                         [map |-> dict_set(acc.map, name, item.id),
                          names |-> Append(acc.names, name)])

NoLoad == [map |-> EmptyDict, names |-> <<>>]

update_status(a, message) == [a EXCEPT !.status_bar = message]

\* Bookkeeping of the IssuesAPI requests sent: the token of the latest one.
note_requests(a, sent) ==
    IF sent = <<>> THEN a ELSE [a EXCEPT !.last_request = sent[Len(sent)].token]

\* Bookkeeping of the project-detail requests: which projects have had their
\* container id resolved, and which were resolved once more after that.
note_resolution(a, project_id, container_id) ==
    [a EXCEPT !.resolved_again = IF project_id \in a.resolved THEN @ \cup {project_id} ELSE @,
              !.resolved = IF falsy(container_id) THEN @ ELSE @ \cup {project_id}]

\* IssuesFetcherApp.on_project_selected
on_project_selected(a, detail_kind, types_kind) ==
    IF a.project_var = <<>> THEN a
    ELSE IF a.project_var \notin DOMAIN a.projects \/ a.hub_var \notin DOMAIN a.hubs
    THEN \* KeyError, caught by the handler's except
         update_status([a EXCEPT !.fetch_btn = "normal"],
                       Text("Project selected (issue types unavailable)"))
    ELSE IF ~a.has_issues_access
    THEN update_status([a EXCEPT !.fetch_btn = "normal"],
                       Text("Project selected (Issues API requires user consent)"))
    ELSE LET project_id == a.projects[a.project_var]
             hub_id == a.hubs[a.hub_var]
             detail == get_project_container_id(a.issues_api, hub_id, project_id,
                                                DetailResponse(project_id, detail_kind))
             container_id == detail.outcome.value
             a1 == note_resolution(note_requests(a, detail.sent), project_id, container_id)
         IN  IF falsy(container_id)
             THEN update_status([a1 EXCEPT !.fetch_btn = "normal"],
                                Text("Project selected (Issues API may not be available)"))
             ELSE LET types == get_issue_types(a.issues_api, container_id,
                                               TypesResponse(container_id, types_kind))
                      issue_types_data == types.outcome.value
                      loaded == load_types(issue_types_data, NoLoad)
                  IN  update_status(
                          [note_requests(a1, types.sent)
                                 EXCEPT !.current_container_id = container_id,
                                     !.issue_types = loaded.map,
                                     !.issue_type_values = <<<<>>>> \o loaded.names,
                                     !.issue_type_var = <<>>,
                                     !.fetch_btn = "normal"],
                          IF loaded.names # <<>>
                          THEN <<"Loaded issue types", Len(loaded.names)>>
                          ELSE Text("Project selected (no issue types available)"))

\* on_hub_selected from the point where get_projects has returned
\* projects_data.
on_hub_selected_with(a, projects_data, detail_kind, types_kind) ==
    LET shape == listing_shape(projects_data) IN
    IF ~shape.ok
    THEN update_status([a EXCEPT !.projects = EmptyDict], Text("Failed to load projects"))
    ELSE LET loaded == load_named(shape.list, <<"P", "r", "o", "j", "e", "c", "t", " ">>, NoLoad)
             a1 == [a EXCEPT !.projects = loaded.map, !.project_values = loaded.names]
             a2 == IF loaded.names # <<>>
                   THEN on_project_selected([a1 EXCEPT !.project_var = loaded.names[1]],
                                            detail_kind, types_kind)
                   ELSE a1
         IN  update_status(a2, <<"Loaded projects", Len(loaded.names)>>)

\* IssuesFetcherApp.on_hub_selected
on_hub_selected(a, projects_kind, detail_kind, types_kind) ==
    IF a.hub_var = <<>> THEN a
    ELSE IF a.hub_var \notin DOMAIN a.hubs \/ a.bim360 = NoTok
    THEN update_status(a, Text("Failed to load projects"))
    ELSE on_hub_selected_with(a, ProjectsResponse(a.hubs[a.hub_var], projects_kind),
                              detail_kind, types_kind)

\* load_hubs from the point where get_hubs has returned hubs_data.
load_hubs_with(a, hubs_data, projects_kind, detail_kind, types_kind) ==
    LET shape == listing_shape(hubs_data) IN
    IF ~shape.ok
    THEN update_status([a EXCEPT !.hubs = EmptyDict], Text("Failed to load hubs"))
    ELSE LET loaded == load_named(shape.list, <<"H", "u", "b", " ">>, NoLoad)
             a1 == [a EXCEPT !.hubs = loaded.map, !.hub_values = loaded.names]
             a2 == IF loaded.names # <<>>
                   THEN on_hub_selected([a1 EXCEPT !.hub_var = loaded.names[1]],
                                        projects_kind, detail_kind, types_kind)
                   ELSE a1
         IN  update_status(a2, <<"Loaded hubs", Len(loaded.names)>>)

\* IssuesFetcherApp.load_hubs
load_hubs(a, hubs_kind, projects_kind, detail_kind, types_kind) ==
    IF a.bim360 = NoTok
    THEN update_status(a, Text("Failed to load hubs"))
    ELSE load_hubs_with(a, HubsResponse(hubs_kind), projects_kind, detail_kind, types_kind)

\* Python values of a cell: None or a string.
PyNone == [null |-> TRUE, s |-> <<>>]
PyStr(s) == [null |-> FALSE, s |-> s]

\* d.get(key, "") where the value is not an object
field_get(v) ==
    IF v.kind = "absent" THEN PyStr(<<>>)
    ELSE IF v.kind = "null" THEN PyNone
    ELSE PyStr(v.s)

\* obj.get("title", "") and obj.get("name", "") on an object
inner_get(v) ==
    IF v.sub = "absent" THEN PyStr(<<>>)
    ELSE IF v.sub = "null" THEN PyNone
    ELSE PyStr(v.s)

\* str(x)
str(c) == IF c.null THEN PyStr(<<"N", "o", "n", "e">>) ELSE c

\* attributes.get(key, {}).get(sub, ""): None and a string have no get.
chained_get(v) ==
    IF v.kind = "absent" THEN value_of(PyStr(<<>>))
    ELSE IF v.kind = "obj" THEN value_of(inner_get(v))
    ELSE exception

\* "if attributes.get(key)": None, "" and a missing key are false.
truthy(v) == v.kind = "obj" \/ (v.kind = "str" /\ v.s # <<>>)

\* attributes.get(key, {}).get("name", "") if attributes.get(key) else ""
guarded_get(v) == IF truthy(v) THEN chained_get(v) ELSE value_of(PyStr(<<>>))

\* issue.get(key, {}).get(sub, "") if isinstance(issue.get(key), dict)
\* else str(issue.get(key, ""))
direct_get(v) == IF v.kind = "obj" THEN inner_get(v) ELSE str(field_get(v))

\* issue.get("id", "")
id_get(id) == IF id = NoneStr THEN PyNone ELSE PyStr(id)

\* The twelve columns of an export row.
row(id, f, issue_type, assigned_to, created_by) ==
    [ID |-> id_get(id),
     Title |-> field_get(f["title"]),
     Description |-> field_get(f["description"]),
     IssueType |-> issue_type,
     Status |-> field_get(f["status"]),
     Priority |-> field_get(f["priority"]),
     CreatedAt |-> field_get(f["createdAt"]),
     UpdatedAt |-> field_get(f["updatedAt"]),
     AssignedTo |-> assigned_to,
     CreatedBy |-> created_by,
     Location |-> field_get(f["locationDescription"]),
     DueDate |-> field_get(f["dueDate"])]

\* The body of the loop of issues_to_dataframe: the row of one issue, or the
\* exception it raises.
issue_row(issue) ==
    IF issue.type # "dict" THEN exception
    ELSE IF issue.wrapped
    THEN IF issue.attributes # "object" THEN exception
         ELSE LET issue_type == chained_get(issue.f["issueType"])
                  assigned_to == guarded_get(issue.f["assignedTo"])
                  created_by == guarded_get(issue.f["createdBy"])
              IN  IF issue_type.raised \/ assigned_to.raised \/ created_by.raised
                  THEN exception
                  ELSE value_of(row(issue.id, issue.f, issue_type.value, assigned_to.value,
                                    created_by.value))
    ELSE value_of(row(issue.id, issue.f, direct_get(issue.f["issueType"]),
                      direct_get(issue.f["assignedTo"]), direct_get(issue.f["createdBy"])))

\* IssuesFetcherApp.issues_to_dataframe: the rows, or the first exception.
issues_to_dataframe(current_issues) ==
    IF \E i \in DOMAIN current_issues : issue_row(current_issues[i]).raised
    THEN exception
    ELSE value_of([i \in DOMAIN current_issues |-> issue_row(current_issues[i]).value])

\* The body of the loop of display_issues raises on an item that is not a
\* mapping, on null attributes, and where a chained get meets None.
display_raises(issue) ==
    \/ issue.type # "dict"
    \/ /\ issue.wrapped
       /\ \/ issue.attributes # "object"
          \/ chained_get(issue.f["issueType"]).raised
          \/ guarded_get(issue.f["assignedTo"]).raised

\* IssuesFetcherApp.display_issues: a row per issue; the loop stops at the
\* item that raises, after the rows before it were inserted.
RECURSIVE tree_rows(_)
tree_rows(issues) ==
    IF issues = <<>> \/ display_raises(Head(issues)) THEN <<>>
    ELSE <<Head(issues).id>> \o tree_rows(Tail(issues))

display_issues_raises(issues) == \E i \in DOMAIN issues : display_raises(issues[i])

display_issues(a, issues) ==
    IF issues = <<>>
    THEN update_status([a EXCEPT !.current_issues = issues, !.tree = <<<<"No issues found">>>>],
                       Text("No issues found"))
    ELSE IF display_issues_raises(issues)
    THEN [a EXCEPT !.current_issues = issues, !.tree = tree_rows(issues)]
    ELSE update_status([a EXCEPT !.current_issues = issues, !.tree = tree_rows(issues)],
                       <<"Fetched issues", Len(issues)>>)

NoCall == [method |-> "none", container_id |-> NoneStr, project_id |-> NoneStr,
           issue_type |-> NoneStr, status |-> NoneStr, limit |-> 0]

ApiInit ==
    /\ api_pc = "idle"
    /\ api_call = NoCall
    /\ api_response = [kind |-> "exception", status_code |-> 0, body |-> NoBody]
    /\ api_sent = <<>>
    /\ api_ret = value_of(<<>>)

ApiToken == <<"3leg", 1>>

Calls ==
    [method : {"get_issues"}, container_id : ContainerIds, project_id : {NoneStr},
     issue_type : IssueTypeArgs, status : StatusArgs, limit : Limits]
    \cup [method : {"get_issue_types"}, container_id : ContainerIds, project_id : {NoneStr},
          issue_type : {NoneStr}, status : {NoneStr}, limit : {0}]
    \cup [method : {"load_hubs", "on_hub_selected", "display_issues", "issues_to_dataframe"},
          container_id : {NoneStr}, project_id : {NoneStr}, issue_type : {NoneStr},
          status : {NoneStr}, limit : {0}]
    \cup [method : {"get_project_container_id"}, container_id : {NoneStr},
          project_id : DetailProjectIds, issue_type : {NoneStr}, status : {NoneStr},
          limit : {0}]

\* What the call meets: the answer of the Issues endpoint, what the bim360
\* client returns to the listing handler, or the list of issues a fetch
\* returned.
ResponsesTo(call) ==
    IF call.method = "load_hubs"
    THEN [kind : {"status"}, status_code : {200}, body : ListingBodies(HubItems)]
    ELSE IF call.method = "on_hub_selected"
    THEN [kind : {"status"}, status_code : {200}, body : ListingBodies(ProjectItems)]
    ELSE IF call.method = "get_project_container_id"
    THEN DetailResponses
    ELSE IF call.method \in {"display_issues", "issues_to_dataframe"}
    THEN { [kind |-> "status", status_code |-> 200, body |-> ListBody(issues)] :
             issues \in IssueLists }
    ELSE Responses

\* The inputs of one call: its arguments and what the network will answer.
ApiInputs ==
    /\ api_pc = "called"
    /\ api_call \in Calls
    /\ api_response \in ResponsesTo(api_call)
    /\ api_sent = <<>>
    /\ api_ret = value_of(<<>>)

\* The call of get_issues runs.
call_get_issues ==
    /\ api_pc = "called"
    /\ api_call.method = "get_issues"
    /\ LET r == get_issues(ApiToken, api_call.container_id, api_call.issue_type,
                           api_call.status, api_call.limit, api_response) IN
        /\ api_sent' = r.sent
        /\ api_ret' = r.outcome
    /\ api_pc' = "returned"
    /\ UNCHANGED <<api_call, api_response, authVars, webVars, appVars>>

\* The call of get_project_container_id runs.
call_get_project_container_id ==
    /\ api_pc = "called"
    /\ api_call.method = "get_project_container_id"
    /\ LET r == get_project_container_id(ApiToken, Hub1, api_call.project_id, api_response) IN
        /\ api_sent' = r.sent
        /\ api_ret' = r.outcome
    /\ api_pc' = "returned"
    /\ UNCHANGED <<api_call, api_response, authVars, webVars, appVars>>

\* The call of get_issue_types runs.
call_get_issue_types ==
    /\ api_pc = "called"
    /\ api_call.method = "get_issue_types"
    /\ LET r == get_issue_types(ApiToken, api_call.container_id, api_response) IN
        /\ api_sent' = r.sent
        /\ api_ret' = r.outcome
    /\ api_pc' = "returned"
    /\ UNCHANGED <<api_call, api_response, authVars, webVars, appVars>>

AuthInit ==
    /\ pc = "idle"
    /\ server = [open |-> FALSE, auth_code |-> None, auth_error |-> NoError]
    /\ elapsed = 0
    /\ request = NoRequest
    /\ status = 0
    /\ auth_url = NoUrl
    /\ issued = <<>>
    /\ posts = <<>>
    /\ token_response = 0
    /\ token_data = NoToken

\* authenticate up to the while loop: the server is bound, the URL is
\* generated and opened, the clock is started.
authenticate_start ==
    /\ pc \in {"idle", "done"}
    /\ Len(issued) < MaxAttempts
    /\ server' = start_callback_server
    /\ auth_url' = get_authorization_url
    /\ issued' = Append(issued, get_authorization_url)
    /\ elapsed' = 0
    /\ request' = NoRequest
    /\ status' = 0
    /\ token_data' = NoToken
    /\ token_response' = 0
    /\ pc' = "waiting"
    /\ UNCHANGED posts
    /\ UNCHANGED <<apiVars, appVars, webVars>>

\* HTTPServer(("localhost", 8080), ...) raises when the port is taken;
\* authenticate propagates the exception.
authenticate_bind_fails ==
    /\ pc \in {"idle", "done"}
    /\ Len(issued) < MaxAttempts
    /\ token_data' = Raised
    /\ pc' = "done"
    /\ UNCHANGED <<server, elapsed, request, status, auth_url, issued, posts, token_response>>
    /\ UNCHANGED <<apiVars, appVars, webVars>>

\* One loop iteration in which handle_request serves a request.
authenticate_handle_request ==
    /\ pc = "waiting"
    /\ elapsed < timeout
    /\ \E req \in Requests :
         LET r == do_GET(server, req) IN
         /\ request' = req
         /\ status' = r.status
         /\ IF r.server.auth_code # None
            THEN /\ server' = server_close(r.server)
                 /\ pc' = "exchanging"
                 /\ UNCHANGED <<elapsed, token_data>>
            ELSE IF r.server.auth_error # NoError
            THEN /\ server' = server_close(r.server)
                 /\ token_data' = NoToken
                 /\ pc' = "done"
                 /\ UNCHANGED elapsed
            ELSE /\ server' = r.server
                 /\ elapsed' = clock_after_iteration(elapsed)
                 /\ UNCHANGED <<pc, token_data>>
    /\ UNCHANGED <<auth_url, issued, posts, token_response>>
    /\ UNCHANGED <<apiVars, appVars, webVars>>

\* One loop iteration in which handle_request times out with no request.
authenticate_idle ==
    /\ pc = "waiting"
    /\ elapsed < timeout
    /\ elapsed' = clock_after_iteration(elapsed)
    /\ UNCHANGED <<pc, server, request, status, auth_url, issued, posts, token_response,
                   token_data>>
    /\ UNCHANGED <<apiVars, appVars, webVars>>

\* One loop iteration in which handle_request accepts a connection whose
\* client sends no request line.  server.timeout bounds only the wait for a
\* connection; the handler's read of the request line has no timeout, so
\* handle_request does not return while the client keeps the connection open.
authenticate_handle_silent_connection ==
    /\ pc = "waiting"
    /\ elapsed < timeout
    /\ pc' = "blocked"
    /\ UNCHANGED <<server, elapsed, request, status, auth_url, issued, posts, token_response,
                   token_data>>
    /\ UNCHANGED <<apiVars, appVars, webVars>>

\* The client closes the silent connection, now or after the deadline has
\* passed: handle_request returns and the loop goes on.
silent_connection_closed ==
    /\ pc = "blocked"
    /\ \E t \in {clock_after_iteration(elapsed), clock_after_iteration(timeout)} :
         elapsed' = t
    /\ pc' = "waiting"
    /\ UNCHANGED <<server, request, status, auth_url, issued, posts, token_response,
                   token_data>>
    /\ UNCHANGED <<apiVars, appVars, webVars>>

\* The loop condition fails.
authenticate_timeout ==
    /\ pc = "waiting"
    /\ elapsed >= timeout
    /\ server' = server_close(server)
    /\ token_data' = NoToken
    /\ pc' = "done"
    /\ UNCHANGED <<elapsed, request, status, auth_url, issued, posts, token_response>>
    /\ UNCHANGED <<apiVars, appVars, webVars>>

\* exchange_code_for_token: the POST and the provider's answer.
authenticate_exchange ==
    /\ pc = "exchanging"
    /\ posts' = Append(posts, [attempt |-> Len(issued), code |-> server.auth_code,
                               grant_type |-> "authorization_code"])
    /\ \E response_status \in TokenStatuses :
         /\ token_response' = response_status
         /\ token_data' = exchange_code_for_token(Len(issued), response_status)
    /\ pc' = "done"
    /\ UNCHANGED <<server, elapsed, request, status, auth_url, issued>>
    /\ UNCHANGED <<apiVars, appVars, webVars>>

\* requests.post raises (network failure, timeout); authenticate propagates it.
authenticate_exchange_raises ==
    /\ pc = "exchanging"
    /\ posts' = Append(posts, [attempt |-> Len(issued), code |-> server.auth_code,
                               grant_type |-> "authorization_code"])
    /\ token_data' = Raised
    /\ UNCHANGED token_response
    /\ pc' = "done"
    /\ UNCHANGED <<server, elapsed, request, status, auth_url, issued>>
    /\ UNCHANGED <<apiVars, appVars, webVars>>

NextAuth ==
    \/ authenticate_start
    \/ authenticate_bind_fails
    \/ authenticate_handle_request
    \/ authenticate_idle
    \/ authenticate_handle_silent_connection
    \/ silent_connection_closed
    \/ authenticate_timeout
    \/ authenticate_exchange
    \/ authenticate_exchange_raises

(***************************************************************************)
(* The desktop application: state, UI-thread handlers and worker threads.  *)
(* Three fields of app are bookkeeping.  network: the kinds of network     *)
(* calls (and the browser launch) the authentication workers have made so  *)
(* far.  superseded: the IssuesAPI tokens the session held when            *)
(* authenticate() was called again.  last_request: the token of the latest *)
(* IssuesAPI request sent since authenticate() was last called.            *)
(***************************************************************************)
\* What os.getenv gives for each credential: unset, empty, or a value.
ClientIds == {NoneStr, <<>>, <<"i", "d">>}
ClientSecrets == {NoneStr, <<>>, <<"s">>}

\* The test that looks at the client id only.
missing_credentials_IdOnly(c) == falsy(c.client_id)
\* "if not client_id or not client_secret"
missing_credentials(c) == falsy(c.client_id) \/ falsy(c.client_secret)

\* A worker makes network calls of the given kinds.
note_network(a, kinds) == [a EXCEPT !.network = @ \cup kinds]

\* The fields of IssuesFetcherApp after __init__.
NewApp ==
    [bim360 |-> NoTok,
        issues_api |-> NoTok,
        hubs |-> EmptyDict,
        projects |-> EmptyDict,
        issue_types |-> EmptyDict,
        current_issues |-> <<>>,
        current_container_id |-> NoneStr,
        has_issues_access |-> FALSE,
        hub_var |-> <<>>,
        project_var |-> <<>>,
        issue_type_var |-> <<>>,
        hub_values |-> <<>>,
        project_values |-> <<>>,
        issue_type_values |-> <<>>,
        fetch_btn |-> "disabled",
        auth_status |-> "Not authenticated",
        auth_btn |-> "Authenticate",
        status_bar |-> Text("Ready"),
        progress |-> FALSE,
        tree |-> <<>>,
        message |-> "",
        resolved |-> {},
        resolved_again |-> {},
        network |-> {},
        superseded |-> {},
        last_request |-> NoTok]

AppInit ==
    /\ app = NewApp
    /\ threads = <<>>
    /\ ui_queue = <<>>
    /\ credentials \in [client_id : ClientIds, client_secret : ClientSecrets]

AppIdle ==
    /\ AppInit
    /\ credentials = [client_id |-> <<"i", "d">>, client_secret |-> <<"s">>]

\* A chain of requests stops at the first that fails; the answers to the
\* requests after it are not chosen.
Relevant(projects_kind, detail_kind, types_kind) ==
    /\ projects_kind = "str" => detail_kind = "404"
    /\ detail_kind = "404" => types_kind = "404"

\* A session with full access whose hubs and projects are loaded.
SessionApp ==
    load_hubs([NewApp EXCEPT !.bim360 = Token2Leg(1),
                             !.issues_api = ApiToken,
                             !.has_issues_access = TRUE,
                             !.auth_status = "Authenticated (Full Access)",
                             !.auth_btn = "Re-authenticate"],
              "list", "list", "404", "404")

\* The session a call runs in; an export runs on the issues a fetch has
\* stored in current_issues.
AppSession ==
    /\ app = IF api_call.method = "issues_to_dataframe"
             THEN [SessionApp EXCEPT !.current_issues = api_response.body.items]
             ELSE SessionApp
    /\ threads = <<>>
    /\ ui_queue = <<>>
    /\ credentials = [client_id |-> <<"i", "d">>, client_secret |-> <<"s">>]

\* load_hubs runs with what get_hubs returned.
call_load_hubs ==
    /\ api_pc = "called"
    /\ api_call.method = "load_hubs"
    /\ \E projects_kind \in ListingKinds, detail_kind \in DetailKinds, types_kind \in ListKinds :
         /\ Relevant(projects_kind, detail_kind, types_kind)
         /\ app' = load_hubs_with(app, api_response.body, projects_kind, detail_kind,
                                  types_kind)
    /\ api_pc' = "returned"
    /\ UNCHANGED <<api_call, api_response, api_sent, api_ret, threads, ui_queue, credentials,
                   authVars, webVars>>

\* on_hub_selected runs with what get_projects returned.
call_on_hub_selected ==
    /\ api_pc = "called"
    /\ api_call.method = "on_hub_selected"
    /\ \E detail_kind \in DetailKinds, types_kind \in ListKinds :
         /\ Relevant("list", detail_kind, types_kind)
         /\ app' = on_hub_selected_with(app, api_response.body, detail_kind, types_kind)
    /\ api_pc' = "returned"
    /\ UNCHANGED <<api_call, api_response, api_sent, api_ret, threads, ui_queue, credentials,
                   authVars, webVars>>

\* display_issues runs with the issues a fetch returned.
call_display_issues ==
    /\ api_pc = "called"
    /\ api_call.method = "display_issues"
    /\ app' = display_issues(app, api_response.body.items)
    /\ api_ret' = IF display_issues_raises(api_response.body.items)
                  THEN exception
                  ELSE value_of(<<>>)
    /\ api_pc' = "returned"
    /\ UNCHANGED <<api_call, api_response, api_sent, threads, ui_queue, credentials, authVars, webVars>>

\* issues_to_dataframe runs on current_issues.
call_issues_to_dataframe ==
    /\ api_pc = "called"
    /\ api_call.method = "issues_to_dataframe"
    /\ api_ret' = issues_to_dataframe(app.current_issues)
    /\ api_pc' = "returned"
    /\ UNCHANGED <<api_call, api_response, api_sent, appVars, authVars, webVars>>

Callback(fn, arg) == [fn |-> fn, arg |-> arg]

Thread(kind) ==
    [kind |-> kind, pc |-> "begin", token_2leg |-> NoTok, token_3leg |-> NoTok,
     project_id |-> NoneStr, container_id |-> NoneStr]

\* A finished thread keeps nothing.
Finished == [Thread("done") EXCEPT !.pc = "done"]

ActiveThreads == {i \in DOMAIN threads : threads[i].pc # "done"}

\* The Authenticate button: authenticate() starts auth_thread.
click_authenticate ==
    /\ Len(threads) < MaxWorkers
    /\ threads' = Append(threads, Thread("auth"))
    /\ app' = [app EXCEPT !.superseded = @ \cup ({app.issues_api} \ {NoTok}),
                          !.last_request = NoTok]
    /\ UNCHANGED <<ui_queue, credentials, authVars, webVars, apiVars>>

auth_started_callbacks ==
    << Callback("update_status", Text("Authenticating...")),
       Callback("progress_start", Text("")) >>

\* The "except Exception as e" and "finally" of auth_thread.
auth_failed_callbacks ==
    << Callback("auth_status", Text("Authentication failed")),
       Callback("update_status", Text("Authentication failed - check console for details")),
       Callback("progress_stop", Text("")) >>

\* auth_thread up to the 3-legged flow: the credentials test, then
\* Auth().auth2leg() and BIM360(token_2leg).
auth_2leg(i) ==
    /\ threads[i].kind = "auth" /\ threads[i].pc = "begin"
    /\ IF missing_credentials(credentials)
       THEN /\ threads' = [threads EXCEPT ![i] = Finished]
            /\ ui_queue' = Append(ui_queue, auth_started_callbacks \o auth_failed_callbacks)
            /\ UNCHANGED app
       ELSE \E ok \in BOOLEAN :
            IF ok
            THEN /\ app' = note_network([app EXCEPT !.bim360 = Token2Leg(i)], {"auth2leg"})
                 /\ threads' = [threads EXCEPT ![i].pc = "bind",
                                               ![i].token_2leg = Token2Leg(i)]
                 /\ ui_queue' = Append(ui_queue, auth_started_callbacks)
            ELSE /\ app' = note_network(app, {"auth2leg"})
                 /\ threads' = [threads EXCEPT ![i] = Finished]
                 /\ ui_queue' = Append(ui_queue,
                                       auth_started_callbacks \o auth_failed_callbacks)
    /\ UNCHANGED <<credentials, authVars, webVars, apiVars>>

\* self.issues_api = IssuesAPI(token_3leg), or IssuesAPI(token_2leg) in the
\* handler of "except Exception as e3leg".
set_issues_api(a, token_2leg, token_3leg) ==
    [a EXCEPT !.issues_api = IF token_3leg # NoTok THEN token_3leg ELSE token_2leg]

\* Manual3LeggedAuth.authenticate binds port 8080.  The bind raises when the
\* port is taken, by another auth_thread of this application or by another
\* process; the exception is caught by "except Exception as e3leg".
auth_3leg_start(i) ==
    /\ threads[i].kind = "auth" /\ threads[i].pc = "bind"
    /\ \E bound \in BOOLEAN :
         /\ bound => ~\E j \in DOMAIN threads : threads[j].pc = "wait"
         /\ IF bound
            THEN /\ threads' = [threads EXCEPT ![i].pc = "wait"]
                 /\ app' = note_network(app, {"callback_server", "browser"})
            ELSE /\ threads' = [threads EXCEPT ![i].pc = "set_access"]
                 /\ app' = set_issues_api(app, threads[i].token_2leg, NoTok)
    /\ UNCHANGED <<ui_queue, credentials, authVars, webVars, apiVars>>

\* Manual3LeggedAuth.authenticate returns a token, returns None without a
\* token exchange (provider error, timeout), returns None after the exchange
\* was rejected, or raises in the exchange; self.issues_api is assigned.
auth_3leg_finish(i) ==
    /\ threads[i].kind = "auth" /\ threads[i].pc = "wait"
    /\ \E outcome \in {"token", "None", "rejected", "raised"} :
         LET token_3leg == IF outcome = "token" THEN Token3Leg(i) ELSE NoTok IN
         /\ threads' = [threads EXCEPT ![i].pc = "set_access", ![i].token_3leg = token_3leg]
         /\ app' = note_network(set_issues_api(app, threads[i].token_2leg, token_3leg),
                                IF outcome = "None" THEN {} ELSE {"token_exchange"})
    /\ UNCHANGED <<ui_queue, credentials, authVars, webVars, apiVars>>

\* self.has_issues_access = True, or False.
auth_set_access(i) ==
    /\ threads[i].kind = "auth" /\ threads[i].pc = "set_access"
    /\ app' = [app EXCEPT !.has_issues_access = (threads[i].token_3leg # NoTok)]
    /\ threads' = [threads EXCEPT ![i].pc = "report"]
    /\ UNCHANGED <<ui_queue, credentials, authVars, webVars, apiVars>>

\* "if self.has_issues_access" and the callbacks handed to the UI thread.
auth_report(i) ==
    /\ threads[i].kind = "auth" /\ threads[i].pc = "report"
    /\ ui_queue' = Append(ui_queue,
         << Callback("auth_status", IF app.has_issues_access
                                    THEN Text("Authenticated (Full Access)")
                                    ELSE Text("Authenticated (Limited)")),
            Callback("auth_btn", Text("Re-authenticate")),
            Callback("load_hubs", Text("")),
            Callback("update_status",
                     IF app.has_issues_access
                     THEN Text("Authentication successful - Full access")
                     ELSE Text("Authentication successful - Hub/project access only")),
            Callback("progress_stop", Text("")) >>)
    /\ threads' = [threads EXCEPT ![i] = Finished]
    /\ UNCHANGED <<app, credentials, authVars, webVars, apiVars>>

\* The user picks an entry of the hub combobox.
select_hub ==
    /\ \E n \in DOMAIN app.hub_values, projects_kind \in ListingKinds,
          detail_kind \in DetailKinds, types_kind \in ListKinds :
         /\ Relevant(projects_kind, detail_kind, types_kind)
         /\ app' = on_hub_selected([app EXCEPT !.hub_var = app.hub_values[n]],
                                   projects_kind, detail_kind, types_kind)
    /\ UNCHANGED <<threads, ui_queue, credentials, authVars, webVars, apiVars>>

\* The user picks an entry of the project combobox.
select_project ==
    /\ \E n \in DOMAIN app.project_values, detail_kind \in DetailKinds, types_kind \in ListKinds :
         /\ Relevant("list", detail_kind, types_kind)
         /\ app' = on_project_selected([app EXCEPT !.project_var = app.project_values[n]],
                                       detail_kind, types_kind)
    /\ UNCHANGED <<threads, ui_queue, credentials, authVars, webVars, apiVars>>

\* The user picks an entry of the issue type combobox.
select_issue_type ==
    /\ \E n \in DOMAIN app.issue_type_values :
         /\ app.issue_type_var # app.issue_type_values[n]
         /\ app' = [app EXCEPT !.issue_type_var = app.issue_type_values[n]]
    /\ UNCHANGED <<threads, ui_queue, credentials, authVars, webVars, apiVars>>

\* The Fetch Issues button: fetch_issues() up to the start of fetch_thread.
click_fetch ==
    /\ app.fetch_btn = "normal"
    /\ IF app.project_var = <<>>
       THEN /\ app' = [app EXCEPT !.message = "Please select a project first"]
            /\ UNCHANGED threads
       ELSE IF ~app.has_issues_access
       THEN /\ app' = [app EXCEPT !.message = "Issues API Access Required"]
            /\ UNCHANGED threads
       ELSE /\ Len(threads) < MaxWorkers
            /\ threads' = Append(threads, Thread("fetch"))
            /\ UNCHANGED app
    /\ UNCHANGED <<ui_queue, credentials, authVars, webVars, apiVars>>

\* The "except Exception as e" and "finally" of fetch_thread.
fetch_failed_callbacks ==
    << Callback("messagebox", Text("Failed to fetch issues")),
       Callback("update_status", Text("Failed to fetch issues")),
       Callback("progress_stop", Text("")) >>

\* fetch_thread up to the test of the stored container id.  The worker
\* calls progress.start() and update_status itself.
fetch_begin(i) ==
    /\ threads[i].kind = "fetch" /\ threads[i].pc = "begin"
    /\ app' = update_status([app EXCEPT !.progress = TRUE], Text("Fetching issues..."))
    /\ IF app.project_var \notin DOMAIN app.projects
       THEN /\ threads' = [threads EXCEPT ![i] = Finished]
            /\ ui_queue' = Append(ui_queue, fetch_failed_callbacks)
       ELSE /\ threads' = [threads EXCEPT
                   ![i].project_id = app.projects[app.project_var],
                   ![i].container_id = app.current_container_id,
                   ![i].pc = IF falsy(app.current_container_id) THEN "resolve" ELSE "get"]
            /\ UNCHANGED ui_queue
    /\ UNCHANGED <<credentials, authVars, webVars, apiVars>>

\* "Try to get container ID again".
fetch_resolve(i) ==
    /\ threads[i].kind = "fetch" /\ threads[i].pc = "resolve"
    /\ IF app.hub_var \notin DOMAIN app.hubs
       THEN /\ threads' = [threads EXCEPT ![i] = Finished]
            /\ ui_queue' = Append(ui_queue, fetch_failed_callbacks)
            /\ UNCHANGED app
       ELSE \E detail_kind \in DetailKinds :
            LET detail == get_project_container_id(app.issues_api, app.hubs[app.hub_var],
                              threads[i].project_id,
                              DetailResponse(threads[i].project_id, detail_kind))
                container_id == detail.outcome.value
            IN  /\ app' = note_resolution(note_requests(app, detail.sent),
                                          threads[i].project_id, container_id)
                /\ IF falsy(container_id)
                   THEN /\ threads' = [threads EXCEPT ![i] = Finished]
                        /\ ui_queue' = Append(ui_queue,
                             << Callback("messagebox", Text("Cannot fetch issues")),
                                Callback("update_status",
                                         Text("Issues not available for this project")),
                                Callback("progress_stop", Text("")) >>)
                   ELSE /\ threads' = [threads EXCEPT ![i].container_id = container_id,
                                                      ![i].pc = "get"]
                        /\ UNCHANGED ui_queue
    /\ UNCHANGED <<credentials, authVars, webVars, apiVars>>

\* The filter values are read and get_issues is called; its result is
\* handed to display_issues on the UI thread.
fetch_get(i) ==
    /\ threads[i].kind = "fetch" /\ threads[i].pc = "get"
    /\ \E issues_kind \in ListKinds :
         LET issue_type_id ==
                 IF app.issue_type_var # <<>> /\ app.issue_type_var \in DOMAIN app.issue_types
                 THEN app.issue_types[app.issue_type_var]
                 ELSE NoneStr
             r == get_issues(app.issues_api, threads[i].container_id, issue_type_id, NoneStr,
                             API_MAX_LIMIT,
                             IssuesResponse(threads[i].container_id, issues_kind))
         IN  /\ ui_queue' = Append(ui_queue, << Callback("display_issues", r.outcome.value),
                                                   Callback("progress_stop", Text("")) >>)
             /\ app' = note_requests(app, r.sent)
    /\ threads' = [threads EXCEPT ![i] = Finished]
    /\ UNCHANGED <<credentials, authVars, webVars, apiVars>>

\* One callback runs on the UI thread.
run(a, cb, hubs_kind, projects_kind, detail_kind, types_kind) ==
    CASE cb.fn = "update_status" -> update_status(a, cb.arg)
      [] cb.fn = "progress_start" -> [a EXCEPT !.progress = TRUE]
      [] cb.fn = "progress_stop" -> [a EXCEPT !.progress = FALSE]
      [] cb.fn = "auth_status" -> [a EXCEPT !.auth_status = cb.arg[1]]
      [] cb.fn = "auth_btn" -> [a EXCEPT !.auth_btn = cb.arg[1]]
      [] cb.fn = "messagebox" -> [a EXCEPT !.message = cb.arg[1]]
      [] cb.fn = "load_hubs" -> load_hubs(a, hubs_kind, projects_kind, detail_kind, types_kind)
      [] cb.fn = "display_issues" -> display_issues(a, cb.arg)

RECURSIVE run_all(_, _, _, _, _, _)
run_all(a, cbs, hubs_kind, projects_kind, detail_kind, types_kind) ==
    IF cbs = <<>> THEN a
    ELSE run_all(run(a, Head(cbs), hubs_kind, projects_kind, detail_kind, types_kind),
                 Tail(cbs), hubs_kind, projects_kind, detail_kind, types_kind)

loads_hubs(cbs) == \E n \in DOMAIN cbs : cbs[n].fn = "load_hubs"

\* The UI thread runs the oldest callbacks of the dispatch queue: those one
\* worker step handed over, back to back.
run_callbacks ==
    /\ ui_queue # <<>>
    /\ ui_queue' = Tail(ui_queue)
    /\ IF loads_hubs(Head(ui_queue))
       THEN \E hubs_kind \in ListingKinds, projects_kind \in ListingKinds,
               detail_kind \in DetailKinds, types_kind \in ListKinds :
                /\ hubs_kind = "str" => projects_kind = "str"
                /\ Relevant(projects_kind, detail_kind, types_kind)
                /\ app' = run_all(app, Head(ui_queue), hubs_kind, projects_kind,
                                  detail_kind, types_kind)
       ELSE app' = run_all(app, Head(ui_queue), "list", "list", "404", "404")
    /\ UNCHANGED <<threads, credentials, authVars, webVars, apiVars>>

NextApp ==
    \/ click_authenticate
    \/ \E i \in DOMAIN threads : auth_2leg(i)
    \/ \E i \in DOMAIN threads : auth_3leg_start(i)
    \/ \E i \in DOMAIN threads : auth_3leg_finish(i)
    \/ \E i \in DOMAIN threads : auth_set_access(i)
    \/ \E i \in DOMAIN threads : auth_report(i)
    \/ select_hub
    \/ select_project
    \/ select_issue_type
    \/ click_fetch
    \/ \E i \in DOMAIN threads : fetch_begin(i)
    \/ \E i \in DOMAIN threads : fetch_resolve(i)
    \/ \E i \in DOMAIN threads : fetch_get(i)
    \/ run_callbacks

(***************************************************************************)
(* The web application (streamlit_app.py).  st.session_state is one record; *)
(* every interaction runs the script main from the top with that record.   *)
(***************************************************************************)
\* initialize_session_state.  last_selected_hub and last_selected_project
\* are not in the session before their first assignment: NoneStr.  The
\* *_selectbox fields are the values of the keyed widgets, hub_names and
\* project_names the keys of the maps in insertion order, and
\* types_requested and last_fetch are bookkeeping: the project
\* load_issue_types was last called for, and what the last fetch asked.
NoFetch == [project |-> NoneStr, sent |-> <<>>]

NewSession ==
    [authenticated |-> FALSE,
     bim360 |-> NoTok,
     issues_api |-> NoTok,
     has_issues_access |-> FALSE,
     hubs |-> EmptyDict,
     projects |-> EmptyDict,
     issue_types |-> EmptyDict,
     current_issues |-> <<>>,
     current_container_id |-> NoneStr,
     waiting_for_auth_code |-> FALSE,
     last_selected_hub |-> NoneStr,
     last_selected_project |-> NoneStr,
     hub_selectbox |-> <<>>,
     project_selectbox |-> <<>>,
     issue_type_selectbox |-> <<>>,
     hub_names |-> <<>>,
     project_names |-> <<>>,
     types_requested |-> NoneStr,
     last_fetch |-> NoFetch]

WebInit == session = NewSession

\* streamlit_app.load_hubs
web_load_hubs(s, hubs_kind) ==
    LET shape == listing_shape(HubsResponse(hubs_kind)) IN
    IF ~shape.ok
    THEN [s EXCEPT !.hubs = EmptyDict, !.hub_names = <<>>]
    ELSE LET loaded == load_named(shape.list, <<"H", "u", "b", " ">>, NoLoad) IN
         [s EXCEPT !.hubs = loaded.map, !.hub_names = loaded.names]

\* streamlit_app.load_projects
load_projects(s, hub_id, projects_kind) ==
    LET shape == listing_shape(ProjectsResponse(hub_id, projects_kind)) IN
    IF ~shape.ok
    THEN [s EXCEPT !.projects = EmptyDict, !.project_names = <<>>]
    ELSE LET loaded == load_named(shape.list, <<"P", "r", "o", "j", "e", "c", "t", " ">>,
                                  NoLoad) IN
         [s EXCEPT !.projects = loaded.map, !.project_names = loaded.names]

\* streamlit_app.load_issue_types
load_issue_types(s, hub_id, project_id, detail_kind, types_kind) ==
    LET detail == get_project_container_id(s.issues_api, hub_id, project_id,
                                           DetailResponse(project_id, detail_kind))
        container_id == detail.outcome.value
        s1 == [s EXCEPT !.types_requested = project_id]
    IN  IF falsy(container_id)
        THEN s1
        ELSE LET types == get_issue_types(s.issues_api, container_id,
                                          TypesResponse(container_id, types_kind))
                 loaded == load_types(types.outcome.value, NoLoad)
             IN  [s1 EXCEPT !.current_container_id = container_id,
                            !.issue_types = loaded.map]

\* st.selectbox: the widget's value when it is one of the options, the
\* first option otherwise.
selectbox(value, options) ==
    IF \E i \in DOMAIN options : options[i] = value THEN value ELSE options[1]

\* main, "Hub Selection": projects are loaded when the hub changes.
hub_selection(s, projects_kind) ==
    IF s.hub_names = <<>> THEN s
    ELSE LET selected_hub == selectbox(s.hub_selectbox, s.hub_names)
             hub_id == s.hubs[selected_hub]
             s1 == [s EXCEPT !.hub_selectbox = selected_hub]
         IN  IF s.last_selected_hub # hub_id
             THEN load_projects([s1 EXCEPT !.last_selected_hub = hub_id], hub_id, projects_kind)
             ELSE s1

\* main, "Project Selection": issue types are loaded when the project
\* changes and the session has issues access.
project_selection(s, detail_kind, types_kind) ==
    IF s.project_names = <<>> THEN [s EXCEPT !.project_selectbox = <<>>]
    ELSE LET selected_project == selectbox(s.project_selectbox, s.project_names)
             project_id == s.projects[selected_project]
             hub_id == s.hubs[s.hub_selectbox]
             s1 == [s EXCEPT !.project_selectbox = selected_project]
         IN  IF s.last_selected_project # project_id
             THEN LET s2 == [s1 EXCEPT !.last_selected_project = project_id] IN
                  IF s.has_issues_access
                  THEN load_issue_types(s2, hub_id, project_id, detail_kind, types_kind)
                  ELSE s2
             ELSE s1

\* main, "Filters": the issue type selectbox offers "" and the loaded types.
filters(s) ==
    IF s.project_names = <<>> \/ s.issue_type_selectbox \in DOMAIN s.issue_types
    THEN s
    ELSE [s EXCEPT !.issue_type_selectbox = <<>>]

\* One run of main up to the buttons.  Without authentication the script
\* returns before the selection widgets.
main(s, projects_kind, detail_kind, types_kind) ==
    IF ~s.authenticated THEN s
    ELSE filters(project_selection(hub_selection(s, projects_kind), detail_kind, types_kind))

\* streamlit_app.authenticate.  how is what the two steps meet: the 2-legged
\* step fails; the local 3-legged flow gives a token or fails; the cloud
\* flow shows the authorization link and waits for the code.
AuthOutcomes == {"fail2", "ok3", "fail3", "waiting"}

authenticate(s, how) ==
    IF how = "fail2" THEN s
    ELSE LET s1 == [s EXCEPT !.bim360 = Token2Leg(1)] IN
         IF how = "waiting" THEN [s1 EXCEPT !.waiting_for_auth_code = TRUE]
         ELSE IF how = "ok3"
         THEN [s1 EXCEPT !.issues_api = Token3Leg(1), !.has_issues_access = TRUE,
                         !.authenticated = TRUE]
         ELSE [s1 EXCEPT !.issues_api = Token2Leg(1), !.has_issues_access = FALSE,
                         !.authenticated = TRUE]

\* fetch_issues, with the project id the button's handler passes.
fetch_issues(s, project_id, container_id, issue_type_id, issues_kind) ==
    IF falsy(container_id)
    THEN [sent |-> <<>>, issues |-> <<>>]
    ELSE LET r == get_issues(s.issues_api, container_id, issue_type_id, NoneStr,
                             API_MAX_LIMIT, IssuesResponse(container_id, issues_kind))
         IN  [sent |-> r.sent, issues |-> r.outcome.value]

\* The selection widgets are rendered and the Fetch Issues button with them.
fetch_offered(s) ==
    s.authenticated /\ s.has_issues_access /\ s.project_names # <<>>
    /\ s.project_selectbox # <<>>

\* The button "Authenticate".
web_authenticate ==
    /\ ~session.authenticated
    /\ ~session.waiting_for_auth_code
    /\ \E how \in AuthOutcomes, projects_kind \in ListingKinds,
          detail_kind \in DetailKinds, types_kind \in ListKinds :
           /\ Relevant(projects_kind, detail_kind, types_kind)
           /\ LET s1 == authenticate(session, how) IN
              session' = IF s1.authenticated
                         THEN main(web_load_hubs(s1, "list"), projects_kind, detail_kind,
                                   types_kind)
                         ELSE s1
    /\ UNCHANGED <<authVars, apiVars, appVars>>

\* The button "Complete Authentication" of the manual code entry.
web_complete_authentication ==
    /\ ~session.authenticated
    /\ session.waiting_for_auth_code
    /\ \E exchanged \in BOOLEAN, projects_kind \in ListingKinds,
          detail_kind \in DetailKinds, types_kind \in ListKinds :
           /\ Relevant(projects_kind, detail_kind, types_kind)
           /\ session' = IF exchanged
                         THEN main(web_load_hubs([session EXCEPT
                                                      !.issues_api = Token3Leg(1),
                                                      !.has_issues_access = TRUE,
                                                      !.authenticated = TRUE,
                                                      !.waiting_for_auth_code = FALSE],
                                                 "list"),
                                   projects_kind, detail_kind, types_kind)
                         ELSE session
    /\ UNCHANGED <<authVars, apiVars, appVars>>

\* The button "Cancel" of the manual code entry.
web_cancel ==
    /\ ~session.authenticated
    /\ session.waiting_for_auth_code
    /\ session' = [session EXCEPT !.waiting_for_auth_code = FALSE]
    /\ UNCHANGED <<authVars, apiVars, appVars>>

\* A widget that a run does not render loses its value; kept is whether
\* the browser still shows the former choice when it is rendered again.
unrendered(s, kept) ==
    IF kept THEN s
    ELSE [s EXCEPT !.hub_selectbox = <<>>, !.project_selectbox = <<>>,
                   !.issue_type_selectbox = <<>>]

\* The sidebar button "Re-authenticate".
web_reauthenticate ==
    /\ session.authenticated
    /\ \E kept \in BOOLEAN :
           session' = unrendered([session EXCEPT !.authenticated = FALSE,
                                                 !.has_issues_access = FALSE], kept)
    /\ UNCHANGED <<authVars, apiVars, appVars>>

\* The button "Re-authenticate for Issues API", shown in limited mode.
web_reauthenticate_for_issues ==
    /\ session.authenticated
    /\ session.project_names # <<>>
    /\ ~session.has_issues_access
    /\ \E kept \in BOOLEAN :
           session' = unrendered([session EXCEPT !.authenticated = FALSE], kept)
    /\ UNCHANGED <<authVars, apiVars, appVars>>

\* The user picks a project in the selectbox.
web_select_project ==
    /\ session.authenticated
    /\ \E i \in DOMAIN session.project_names,
          projects_kind \in ListingKinds, detail_kind \in DetailKinds, types_kind \in ListKinds :
           /\ Relevant(projects_kind, detail_kind, types_kind)
           /\ session' = main([session EXCEPT !.project_selectbox = session.project_names[i]],
                              projects_kind, detail_kind, types_kind)
    /\ UNCHANGED <<authVars, apiVars, appVars>>

\* The user picks an issue type in the selectbox.
web_select_issue_type ==
    /\ session.authenticated
    /\ session.project_names # <<>>
    /\ \E name \in DOMAIN session.issue_types \cup {<<>>},
          projects_kind \in ListingKinds, detail_kind \in DetailKinds, types_kind \in ListKinds :
           /\ Relevant(projects_kind, detail_kind, types_kind)
           /\ session' = main([session EXCEPT !.issue_type_selectbox = name],
                              projects_kind, detail_kind, types_kind)
    /\ UNCHANGED <<authVars, apiVars, appVars>>

\* The button "Fetch Issues".
web_fetch_issues ==
    /\ fetch_offered(session)
    /\ \E issues_kind \in ListKinds, projects_kind \in ListingKinds,
          detail_kind \in DetailKinds, types_kind \in ListKinds :
           /\ Relevant(projects_kind, detail_kind, types_kind)
           /\ LET s == main(session, projects_kind, detail_kind, types_kind)
                  project_id == s.projects[s.project_selectbox]
                  container_id == s.current_container_id
                  issue_type_id == IF s.issue_type_selectbox # <<>>
                                      /\ s.issue_type_selectbox \in DOMAIN s.issue_types
                                   THEN s.issue_types[s.issue_type_selectbox]
                                   ELSE NoneStr
                  r == fetch_issues(s, project_id, container_id, issue_type_id, issues_kind)
              IN  session' = [s EXCEPT !.current_issues = r.issues,
                                       !.last_fetch = [project |-> project_id,
                                                       sent |-> r.sent]]
    /\ UNCHANGED <<authVars, apiVars, appVars>>

NextWeb ==
    \/ web_authenticate
    \/ web_complete_authentication
    \/ web_cancel
    \/ web_reauthenticate_for_issues
    \/ web_reauthenticate
    \/ web_select_project
    \/ web_select_issue_type
    \/ web_fetch_issues

(***************************************************************************)
(* The specifications.                                                     *)
(***************************************************************************)
Init == AuthInit /\ ApiInit /\ AppIdle /\ WebInit

SpecAuth == Init /\ [][NextAuth]_vars

\* The thread that runs authenticate keeps running: a step of the wait loop
\* or of the exchange that can be taken is taken.
authenticate_runs ==
    \/ authenticate_handle_request
    \/ authenticate_idle
    \/ authenticate_handle_silent_connection
    \/ authenticate_timeout
    \/ authenticate_exchange
    \/ authenticate_exchange_raises

SpecAuthLive == Init /\ [][NextAuth]_vars /\ WF_vars(authenticate_runs)

NextApi ==
    \/ call_get_issues
    \/ call_get_issue_types
    \/ call_get_project_container_id
    \/ call_load_hubs
    \/ call_on_hub_selected
    \/ call_display_issues
    \/ call_issues_to_dataframe

InitApi == AuthInit /\ ApiInputs /\ AppSession /\ WebInit

SpecApi == InitApi /\ [][NextApi]_vars

InitApp == AuthInit /\ ApiInit /\ AppInit /\ WebInit

SpecApp == InitApp /\ [][NextApp]_vars

\* The start of an authentication only: the click, the credentials test and
\* the 2-legged token, and the callbacks these hand to the UI thread.
NextAppStart ==
    \/ click_authenticate
    \/ \E i \in DOMAIN threads : auth_2leg(i)
    \/ run_callbacks

SpecAppStart == InitApp /\ [][NextAppStart]_vars

\* The web application: the desktop window is never opened.
SpecWeb == Init /\ [][NextWeb]_vars

(***************************************************************************)
(* Claims about the callback flow (SpecAuth).                              *)
(***************************************************************************)
has_code(req) == in_query_params(req.query, "code")
has_error(req) == in_query_params(req.query, "error")
state_of(req) == query_get_first(req.query, "state", None)
posts_of_attempt == {i \in DOMAIN posts : posts[i].attempt = Len(issued)}

\* C1: a callback on /callback that carries a code but whose state differs
\* from the state of this attempt's authorization URL never leads to the
\* token-exchange POST, and the attempt returns no token.
C1_StateMismatchNeverExchanged ==
    (/\ request # NoRequest
     /\ request.path = CALLBACK_PREFIX
     /\ has_code(request)
     /\ state_of(request) # auth_url.state)
    => /\ pc # "exchanging"
       /\ posts_of_attempt = {}
       /\ (pc = "done" => token_data = NoToken)

\* C2: the state values in the authorization URLs of any two attempts differ.
C2_StateUniquePerAttempt ==
    \A i, j \in DOMAIN issued : i # j => issued[i].state # issued[j].state

\* C8: a GET on the callback path with neither code nor error is answered
\* with 404, sets neither outcome, and the loop keeps waiting (it ends only
\* by the timeout).
C8_NeitherCodeNorErrorIs404 ==
    (/\ request # NoRequest
     /\ request.path = CALLBACK_PREFIX
     /\ ~has_code(request)
     /\ ~has_error(request))
    => /\ status = 404
       /\ server.auth_code = None
       /\ server.auth_error = NoError
       /\ (pc = "waiting" \/ elapsed >= timeout)

\* C9: a GET whose path does not start with "/callback" is answered with 404
\* whatever its query, and auth_code and auth_error both stay unset.
C9_NonCallbackPathIs404 ==
    (request # NoRequest /\ ~startswith(request.path, CALLBACK_PREFIX))
    => /\ status = 404
       /\ server.auth_code = None
       /\ server.auth_error = NoError

C9_Witness ==
    /\ request # NoRequest
    /\ ~startswith(request.path, CALLBACK_PREFIX)
    /\ has_code(request)
    /\ status = 404
    /\ pc = "waiting"

\* C10: only a GET whose path is exactly /callback can set the outcome; any
\* other path, also one that begins with the same characters, gets 404 and
\* leaves auth_code and auth_error unset.
C10_OnlyExactCallbackPath ==
    (request # NoRequest /\ request.path # CALLBACK_PREFIX)
    => /\ status = 404
       /\ server.auth_code = None
       /\ server.auth_error = NoError

\* The provider's status code a result of exchange_code_for_token carries;
\* 0 when it carries none.
carried_status(result) ==
    IF "status_code" \in DOMAIN result THEN result.status_code ELSE 0

\* The POSTs of one attempt.
posts_of(attempt) == {i \in DOMAIN posts : posts[i].attempt = attempt}

\* C11: per attempt the token-exchange POST is sent at most once and only
\* with a received code; when the provider answers it with a status other
\* than 200 the attempt returns no token and the failure returned carries
\* that status.
C11_ExchangeOnceFailureCarriesStatus ==
    /\ \A attempt \in DOMAIN issued : Cardinality(posts_of(attempt)) <= 1
    /\ \A i \in DOMAIN posts : posts[i].code # None
    /\ (pc = "done" /\ posts_of_attempt # {} /\ token_response \notin {0, 200})
       => /\ token_data.kind # "token"
          /\ carried_status(token_data) = token_response

\* The listener has a terminal outcome: a code or an error.
terminal_outcome == server.auth_code # None \/ server.auth_error # NoError

\* C12: however authenticate finishes (code, error, timeout) the callback
\* server has been closed; it is closed before the token-exchange POST is
\* sent; and once the outcome is terminal no further request is handled (the
\* loop that handles requests runs only with an open server and no outcome).
C12_ServerClosedOnEveryExit ==
    /\ pc \in {"exchanging", "done"} => ~server.open
    /\ posts_of_attempt # {} => ~server.open
    /\ terminal_outcome => ~server.open /\ pc \in {"exchanging", "done"}
    /\ pc \in {"waiting", "blocked"} => server.open /\ ~terminal_outcome

\* An attempt that received a code and sent the POST over a closed server.
C12_Witness ==
    /\ pc = "done"
    /\ server.auth_code # None
    /\ posts_of_attempt # {}
    /\ ~server.open

\* authenticate is inside its wait for the callback.
in_wait == pc \in {"waiting", "blocked"}

\* C13: the callback wait always ends; with no terminal callback it ends in
\* failure and only once the timeout has elapsed; requests that are not
\* terminal neither end the wait nor move the deadline.
C13_WaitAlwaysEnds ==
    /\ [](in_wait => <>(~in_wait))
    /\ [][(in_wait /\ ~in_wait' /\ ~terminal_outcome')
          => (elapsed >= timeout /\ pc' = "done" /\ token_data' = NoToken)]_vars
    /\ [][(pc = "waiting" /\ pc' = "waiting") => elapsed' > elapsed]_vars

(***************************************************************************)
(* Claims about the IssuesAPI list calls (SpecApi).                        *)
(***************************************************************************)
returned == api_pc = "returned"
min(a, b) == IF a < b THEN a ELSE b

\* C5: with a non-empty container id, every status other than 200 and every
\* network exception makes get_issues and get_issue_types return an empty
\* list, and no exception reaches the caller.
C5_FailureYieldsEmptyList ==
    (/\ returned
     /\ api_call.container_id \notin {NoneStr, <<>>}
     /\ (api_response.kind = "exception" \/ api_response.status_code # 200))
    => /\ ~api_ret.raised
       /\ api_ret.value = <<>>

C5_Witness ==
    /\ returned
    /\ api_call.method = "get_issue_types"
    /\ api_call.container_id = <<"c", "1">>
    /\ api_response.kind = "exception"
    /\ api_sent # <<>>
    /\ api_ret = value_of(<<>>)

\* C6: the limit parameter of the request get_issues sends is min(limit, 200);
\* a limit above 200 is sent as 200 and the call is not rejected.
C6_LimitClampedTo200 ==
    (/\ returned
     /\ api_call.method = "get_issues"
     /\ api_call.container_id \notin {NoneStr, <<>>})
    => /\ Len(api_sent) = 1
       /\ api_sent[1].limit = min(api_call.limit, 200)
       /\ ~api_ret.raised

C6_Witness ==
    /\ returned
    /\ api_call.method = "get_issues"
    /\ api_call.limit > 200
    /\ Len(api_sent) = 1
    /\ api_sent[1].limit = 200
    /\ api_ret.value # <<>>

\* C7: get_issues and get_issue_types called with an absent or empty
\* container id return an empty list and send no HTTP request.
C7_NoContainerNoRequest ==
    (/\ returned
     /\ api_call.method \in {"get_issues", "get_issue_types"}
     /\ api_call.container_id \in {NoneStr, <<>>})
    => /\ api_sent = <<>>
       /\ api_ret = value_of(<<>>)

C7_Witness ==
    /\ returned
    /\ api_call.method = "get_issues"
    /\ api_call.container_id = <<>>
    /\ api_response.kind = "status"
    /\ api_response.status_code = 200
    /\ api_response.body.results # <<>>
    /\ api_sent = <<>>
    /\ api_ret.value = <<>>

\* C18: with a successful response body {results: [], data: D} and D not
\* empty, get_issues and get_issue_types return D; with results not empty
\* they return results, whatever data holds.
C18_ResultsThenData ==
    (/\ returned
     /\ api_call.container_id \notin {NoneStr, <<>>}
     /\ api_response.kind = "status"
     /\ api_response.status_code = 200
     /\ api_response.body.type = "dict"
     /\ api_response.body.keys = {"results", "data"})
    => IF api_response.body.results # <<>>
       THEN api_ret = value_of(api_response.body.results)
       ELSE api_response.body.data # <<>> => api_ret = value_of(api_response.body.data)

\* The listing a call is about receives a successful response whose body
\* has the given type.
answered_with(type) ==
    /\ returned
    /\ api_response.kind = "status"
    /\ api_response.status_code = 200
    /\ api_response.body.type = type
    /\ api_call.method \in {"load_hubs", "on_hub_selected", "get_issues", "get_issue_types"}
    /\ api_call.method \in {"get_issues", "get_issue_types"}
        => api_call.container_id \notin {NoneStr, <<>>}

\* The records of a sequence: its items that are mappings and have an id.
records(items) ==
    { i \in DOMAIN items : items[i].type = "dict" /\ items[i].id \notin {NoneStr, <<>>} }

\* A session map holds exactly the records of the sequence, by name.
holds_records(map, items) ==
    /\ \A i \in records(items) :
         items[i].name \in DOMAIN map /\ map[items[i].name] = items[i].id
    /\ Cardinality(DOMAIN map) = Cardinality(records(items))

\* C19: a successful response whose body is a bare string ends every listing
\* in its failure outcome: hubs and projects report "Failed to load" and
\* leave their session map empty, issues and issue types return the empty
\* list; nothing made from the characters of the string is stored or
\* returned.
C19_BareStringFails ==
    answered_with("str")
    => CASE api_call.method = "load_hubs" ->
              /\ app.status_bar = Text("Failed to load hubs")
              /\ app.hubs = EmptyDict
         [] api_call.method = "on_hub_selected" ->
              /\ app.status_bar = Text("Failed to load projects")
              /\ app.projects = EmptyDict
         [] OTHER -> api_ret = value_of(<<>>)

C19_Witness ==
    /\ answered_with("str")
    /\ api_call.method = "load_hubs"
    /\ app.status_bar = Text("Failed to load hubs")
    /\ app.hubs = EmptyDict
    /\ app.hub_values # <<>>

\* C20: a successful response whose body is a bare sequence of records is
\* used directly by every listing: hubs and projects store the records of
\* the sequence, get_issues and get_issue_types return the sequence.
C20_BareSequenceUsedDirectly ==
    answered_with("list")
    => CASE api_call.method = "load_hubs" -> holds_records(app.hubs, api_response.body.items)
         [] api_call.method = "on_hub_selected" ->
              holds_records(app.projects, api_response.body.items)
         [] OTHER -> api_ret = value_of(api_response.body.items)

\* The sequence a successful listing response carries: the body itself or
\* its "data" value.
sequence_of(body) == IF body.type = "list" THEN body.items ELSE body.data

\* The ids of the records of a sequence, in order.
RECURSIVE record_ids(_)
record_ids(items) ==
    IF items = <<>> THEN <<>>
    ELSE IF 1 \in records(items) THEN <<Head(items).id>> \o record_ids(Tail(items))
    ELSE record_ids(Tail(items))

\* The mappings of the sequence are issues in the direct shape with no
\* field but the id.
plain(items) ==
    \A i \in DOMAIN items : items[i].type = "dict" => items[i] = DictItem(items[i].id)

\* C21: in a sequence that mixes records with items that are not mappings
\* or have no id, those items are skipped and every record is processed, and
\* no exception ends the operation: the hubs and projects maps hold the
\* records, display_issues shows a row per record, issues_to_dataframe gives
\* a row per record.
C21_InvalidItemsSkipped ==
    (/\ returned
     /\ api_response.kind = "status"
     /\ api_response.status_code = 200
     /\ \/ api_response.body.type = "list"
        \/ api_response.body.type = "dict" /\ "data" \in api_response.body.keys)
    => LET items == sequence_of(api_response.body) IN
       CASE api_call.method = "load_hubs" ->
              /\ holds_records(app.hubs, items)
              /\ app.status_bar = <<"Loaded hubs", Cardinality(records(items))>>
         [] api_call.method = "on_hub_selected" ->
              /\ holds_records(app.projects, items)
              /\ app.status_bar = <<"Loaded projects", Cardinality(records(items))>>
         [] api_call.method = "display_issues" /\ plain(items) ->
              /\ ~api_ret.raised
              /\ items # <<>> => app.tree = record_ids(items)
         [] api_call.method = "issues_to_dataframe" /\ plain(items) ->
              /\ ~api_ret.raised
              /\ Len(api_ret.value) = Cardinality(records(items))
         [] OTHER -> TRUE

\* get_project_container_id has returned from a 200 response whose body is
\* a mapping.
detail_answered ==
    /\ returned
    /\ api_call.method = "get_project_container_id"
    /\ api_response.kind = "status"
    /\ api_response.status_code = 200
    /\ api_response.body.type = "dict"

marked(scope) == startswith(scope, SCOPE_MARKER)

\* C22: with a scope that starts with "b360project.", the result is the first
\* such scope without that leading marker, the rest of the scope unchanged,
\* whatever the project id is.
C22_FirstMarkedScopeStripped ==
    detail_answered
    => \A i \in DOMAIN api_response.body.scopes :
          (/\ marked(api_response.body.scopes[i])
           /\ \A j \in 1..(i - 1) : ~marked(api_response.body.scopes[j]))
          => api_ret = value_of(drop(api_response.body.scopes[i], Len(SCOPE_MARKER)))

\* C23: with no scope that starts with the marker, a project id that starts
\* with "b." gives the id without its first two characters, and any other
\* project id gives None.
C23_ProjectIdFallback ==
    (/\ detail_answered
     /\ \A i \in DOMAIN api_response.body.scopes : ~marked(api_response.body.scopes[i]))
    => IF startswith(api_call.project_id, <<"b", ".">>)
       THEN api_ret = value_of(SubSeq(api_call.project_id, 3, Len(api_call.project_id)))
       ELSE api_ret = value_of(NoneStr)

C23_Witness ==
    /\ detail_answered
    /\ api_call.project_id = <<"b", ".", "A", "B", "C", "1", "2", "3">>
    /\ api_response.body.scopes = << <<"x">> \o SCOPE_MARKER \o <<"c", "3">> >>
    /\ api_ret = value_of(<<"A", "B", "C", "1", "2", "3">>)

\* C24: get_project_container_id raises nothing; a status other than 200, a
\* network exception and a body the code cannot read all give None, also
\* for a project id that starts with "b.".
C24_DetailFailureIsNone ==
    (/\ returned
     /\ api_call.method = "get_project_container_id")
    => /\ ~api_ret.raised
       /\ (\/ api_response.kind = "exception"
           \/ api_response.status_code # 200
           \/ api_response.body.type # "dict")
          => api_ret = value_of(NoneStr)

C24_Witness ==
    /\ returned
    /\ api_call.method = "get_project_container_id"
    /\ startswith(api_call.project_id, <<"b", ".">>)
    /\ api_response.kind = "status"
    /\ api_response.status_code = 200
    /\ api_response.body.type = "null_data"
    /\ api_sent # <<>>
    /\ api_ret = value_of(NoneStr)

\* current_issues holds one logical issue twice: in the direct shape, then
\* wrapped in attributes.
same_issue_in_both_shapes(issues) ==
    /\ Len(issues) = 2
    /\ issues[1].type = "dict" /\ issues[2].type = "dict"
    /\ ~issues[1].wrapped
    /\ issues[2].wrapped /\ issues[2].attributes = "object"
    /\ issues[1].id = issues[2].id
    /\ issues[1].f = issues[2].f

\* C25: for every logical issue (each field present, absent or null, the
\* three object fields absent, null or an object), issues_to_dataframe gives
\* the same row, column by column, for its direct shape and for its
\* attributes-wrapped shape.
C25_SameRowFromBothShapes ==
    (/\ returned
     /\ api_call.method = "issues_to_dataframe"
     /\ same_issue_in_both_shapes(app.current_issues))
    => /\ ~api_ret.raised
       /\ api_ret.value[1] = api_ret.value[2]

\* C26: an issue record in either shape with any fields absent or null
\* (a null issueType, assignedTo or createdBy, null attributes) is displayed
\* and flattened to an export row without an exception.
C26_NullFieldsDoNotRaise ==
    (/\ returned
     /\ api_call.method \in {"display_issues", "issues_to_dataframe"}
     /\ \A i \in DOMAIN api_response.body.items : api_response.body.items[i].type = "dict")
    => ~api_ret.raised

(***************************************************************************)
(* Claims about the desktop application (SpecApp).                         *)
(***************************************************************************)
\* Worker threads that have taken a step of their operation and have not
\* finished it.
Working == {i \in DOMAIN threads : threads[i].pc \notin {"begin", "done"}}

\* C3: once a project's container id has been resolved in the session, no
\* later selection or fetch sends the project-detail request for that
\* project again; the stored value is reused.
C3_ContainerIdResolvedOnce == app.resolved_again = {}

\* C4: two authentication workers, or an authentication worker and a fetch
\* worker, are never in the middle of their operations on the shared session
\* fields at the same time.
C4_OneWorkerOnSessionFields ==
    \A i, j \in Working :
        i # j => threads[i].kind # "auth" /\ threads[j].kind # "auth"

\* C14: with a credential missing or empty, authentication fails and the
\* failure is shown to the user, and no network call is made at any point:
\* no 2-legged token request, no callback server, no browser launch, no token
\* exchange, and no token is stored.
C14_MissingCredentialsNoNetwork ==
    (\/ credentials.client_id \in {NoneStr, <<>>}
     \/ credentials.client_secret \in {NoneStr, <<>>})
    => /\ app.network = {}
       /\ app.bim360 = NoTok /\ app.issues_api = NoTok /\ ~app.has_issues_access
       /\ \A i \in DOMAIN threads : threads[i].pc \in {"begin", "done"}
       /\ (threads # <<>> /\ Working = {} /\ ActiveThreads = {} /\ ui_queue = <<>>)
          => app.auth_status = "Authentication failed"

\* An authentication without the client secret has failed and been reported.
C14_Witness ==
    /\ ~falsy(credentials.client_id)
    /\ falsy(credentials.client_secret)
    /\ threads # <<>>
    /\ ActiveThreads = {}
    /\ ui_queue = <<>>
    /\ app.auth_status = "Authentication failed"
    /\ app.network = {}

\* The callbacks a step has just handed to the UI thread.
handed_over(queue) == IF queue = <<>> THEN <<>> ELSE queue[Len(queue)]

has_callback(cbs, fn, arg) == \E n \in DOMAIN cbs : cbs[n] = Callback(fn, arg)

\* C15: when a worker's 2-legged authentication succeeded and its 3-legged
\* flow failed, the authentication ends in limited-access mode: at its report
\* has_issues_access is false, and it hands over the limited status label
\* and the hub load, not the authentication-failed label.
C15_ThreeLegFailureEndsLimited ==
    [][\A i \in DOMAIN threads :
         (/\ threads[i].kind = "auth" /\ threads[i].pc = "report"
          /\ threads[i].token_2leg # NoTok /\ threads[i].token_3leg = NoTok
          /\ threads'[i].pc = "done")
         => /\ ~app.has_issues_access
            /\ has_callback(handed_over(ui_queue'), "auth_status",
                            Text("Authenticated (Limited)"))
            /\ has_callback(handed_over(ui_queue'), "load_hubs", Text(""))
            /\ ~has_callback(handed_over(ui_queue'), "auth_status",
                             Text("Authentication failed"))]_vars

\* C16: once authenticate() has been called again, no issues, issue-types or
\* project-detail request sent from then on carries a token the session
\* held from an earlier authentication.
C16_EarlierTokenDiscarded ==
    app.last_request = NoTok \/ app.last_request \notin app.superseded

\* The widgets: progress bar, status bar, table, message box, labels,
\* buttons and combobox lists.
widgets(a) ==
    <<a.progress, a.status_bar, a.tree, a.message, a.auth_status, a.auth_btn, a.fetch_btn,
      a.hub_values, a.project_values, a.issue_type_values>>

\* A step taken by a worker thread (a click only starts one).
worker_step == Len(threads') = Len(threads) /\ threads' # threads

\* C17: no step of a worker thread changes a widget; every UI update a
\* worker causes is made by a callback run from the dispatch queue.
C17_WorkersUpdateUiThroughQueue ==
    [][worker_step => widgets(app') = widgets(app)]_vars

\* The container the services hold for a project: the one its detail
\* response names.
container_of(project_id) ==
    get_project_container_id(NoTok, Hub1, project_id,
                             DetailResponse(project_id, "scoped")).outcome.value

\* The id of the issue type the fetch filters by, as fetch_thread reads it.
filter_id(a) ==
    IF a.issue_type_var # <<>> /\ a.issue_type_var \in DOMAIN a.issue_types
    THEN a.issue_types[a.issue_type_var]
    ELSE NoneStr

\* The ids of the issue types the services hold for a container.
type_ids_of(container_id) ==
    LET items == TypesResponse(container_id, "ok").body.results
    IN  { items[n].id : n \in DOMAIN items }

\* C27: when fetch_thread sends the issues request, the container it names
\* is the one of the project selected at that moment, and the issue-type
\* filter it sends is an issue type of that project.
C27_FetchQueriesSelectedProject ==
    [][\A i \in DOMAIN threads :
          fetch_get(i)
          => /\ app.project_var \in DOMAIN app.projects
             /\ threads[i].container_id = container_of(app.projects[app.project_var])
             /\ filter_id(app) \in {NoneStr} \cup type_ids_of(threads[i].container_id)]_vars

\* C28: in every state, also in the middle of a re-authentication that
\* fails, has_issues_access implies that issues_api is set and holds a token
\* of a 3-legged code exchange, never the 2-legged token.
C28_AccessImpliesThreeLegToken ==
    app.has_issues_access => app.issues_api[1] = "3leg"

\* C30: after any sequence of authentications, hub loads and selections,
\* reloads that fail included, every name the hub and project comboboxes
\* offer is a key of the hubs map or of the projects map.
C30_OfferedNamesAreKeys ==
    /\ \A n \in DOMAIN app.hub_values : app.hub_values[n] \in DOMAIN app.hubs
    /\ \A n \in DOMAIN app.project_values : app.project_values[n] \in DOMAIN app.projects

(***************************************************************************)
(* Claims about the web application (SpecWeb).                             *)
(***************************************************************************)
\* The project chosen in the project selectbox.
selected_project_id(s) == s.projects[s.project_selectbox]

\* C29: whenever the Fetch Issues button is offered, that is, the session
\* has issues access and a project is selected, load_issue_types has been
\* called for the selected project since it was selected, also when access
\* was obtained by re-authenticating after the selection in limited mode.
C29_TypesLoadedBeforeFetch ==
    fetch_offered(session) =>
        session.types_requested = selected_project_id(session)

====
